---- MODULE Spec2Model ----
(***************************************************************************)
(* Model of mermaid-isomorphic's host renderer                             *)
(* (src/src/mermaid-isomorphic.ts): createMermaidRenderer's closure state  *)
(* (browserPromise, count), the session wrapper getBrowser, the in-page    *)
(* function renderDiagrams, and the steps of one render call between its   *)
(* awaits.  JavaScript runs a call's code between two awaits atomically,   *)
(* so every action below is one such run; the driver operations a call     *)
(* awaits (launch, newContext, newPage, goto, addStyleTag/addScriptTag,    *)
(* evaluate, screenshot) settle with success or failure chosen by \E.      *)
(* The in-environment renderer (src/src/browser.ts), getAriaValue and the  *)
(* older host renderer (src/index.ts) have their own variables and         *)
(* specifications.                                                         *)
(***************************************************************************)
EXTENDS Integers, Sequences, FiniteSets, TLC

\* ------------------------------------------------------------------ bounds
MaxCalls == 2     \* render calls made on one renderer
MaxBatch == 3     \* diagrams in one render call
MaxBrowserCalls == 3   \* render calls made on the in-environment renderer
MaxAttr == 3      \* characters of an aria-labelledby / aria-describedby value
MaxCss == 2       \* urls in an iterable css option

BCalls == 1..MaxBrowserCalls

Calls == 1..MaxCalls

\* `undefined`: browserPromise before the first launch and after the last release
NoSession == 0

Undefined == "<undefined>"

\* --------------------------------------------------------------- the inputs
\* Diagram sources, as the tests use them: the engine accepts the two graphs
\* and rejects 'invalid'.
DiagramTexts == {"graph TD;A-->B", "invalid", "graph TD;C-->D"}

\* Sources mermaid.render rejects: 'invalid' with an Error, the other two with
\* a value that is no Error, a plain object and a string.
ThrowTexts == {"invalid", "throw object", "throw string"}

EngineAccepts(diagram) == diagram \notin ThrowTexts

\* What mermaid.render rejects with, inside the page.
ThrownBy(diagram) ==
  IF diagram = "invalid"
  THEN [type |-> "Error", name |-> "UnknownDiagramError",
        message |-> "No diagram type detected: " \o diagram, stack |-> "mermaid.js"]
  ELSE IF diagram = "throw object"
  THEN [type |-> "object", str |-> "Parse error on line 1"]
  ELSE [type |-> "string", primitive |-> "Syntax error in graph"]

RECURSIVE SeqsUpTo(_, _)
SeqsUpTo(S, n) ==
  IF n = 0 THEN {<<>>}
  ELSE LET shorter == SeqsUpTo(S, n - 1)
       IN  shorter \cup {Append(s, x) : s \in {t \in shorter : Len(t) = n - 1}, x \in S}

Batches == SeqsUpTo(DiagramTexts, MaxBatch) \ {<<>>}

\* The css option: absent, one string or URL, or an iterable of them.
CssOptions ==
  { [kind |-> "undefined"],
    [kind |-> "string", urls |-> <<"font.css">>],
    [kind |-> "iterable", urls |-> <<"font.css", "font.css">>] }

\* The css options of the stylesheet specification: absent, one string, one
\* URL object, or an iterable of up to MaxCss urls, the empty one, repeated
\* and different urls included.
CssUrls == {"font.css", "other.css"}

AllCssOptions ==
  {[kind |-> "undefined"]}
    \cup {[kind |-> k, urls |-> <<u>>] : k \in {"string", "URL"}, u \in CssUrls}
    \cup {[kind |-> "iterable", urls |-> q] : q \in SeqsUpTo(CssUrls, MaxCss)}

\* One diagram and its screenshot with each of these options.
CssRequests ==
  [diagrams : {<<"graph TD;A-->B">>}, prefix : {Undefined}, screenshot : {TRUE},
   css : AllCssOptions]

\* Requests of the single-call specification: every batch, every option.
BatchRequests ==
  [diagrams : Batches, prefix : {Undefined, "custom"}, screenshot : BOOLEAN,
   css : CssOptions]

\* Requests of the concurrent specification: the calls of the test
\* 'concurrent rendering', and one that asks for screenshots.
PoolRequests ==
  { [diagrams |-> <<d>>, prefix |-> Undefined, screenshot |-> s,
     css |-> [kind |-> "undefined"]] :
      d \in {"graph TD;A-->B", "invalid"}, s \in {FALSE} }
  \cup
  { [diagrams |-> <<"graph TD;C-->D">>, prefix |-> Undefined, screenshot |-> TRUE,
     css |-> [kind |-> "undefined"]] }

\* Requests of the determinism specification: one diagram with the default
\* and with a custom prefix, and an invalid and a valid diagram with
\* screenshots.
IdRequests ==
  { [diagrams |-> <<"graph TD;A-->B">>, prefix |-> pre, screenshot |-> FALSE,
     css |-> [kind |-> "undefined"]] : pre \in {Undefined, "custom"} }
  \cup
  { [diagrams |-> <<"invalid", "graph TD;A-->B">>, prefix |-> Undefined, screenshot |-> TRUE,
     css |-> [kind |-> "undefined"]] }

\* The request of the termination specification: the one of PoolRequests that
\* takes every step, the screenshot included.
LiveRequests == {req \in PoolRequests : req.screenshot}

\* Requests of the sequential specification: what the engine can throw (an
\* Error, a plain object, a string), and the mermaidConfig option absent,
\* without and with a fontFamily, as the fixture tests pass it.
InputRequests ==
  { [diagrams |-> <<"graph TD;A-->B">>, prefix |-> Undefined, screenshot |-> TRUE,
     css |-> [kind |-> "undefined"]],
    [diagrams |-> <<"throw string">>, prefix |-> Undefined, screenshot |-> FALSE,
     css |-> [kind |-> "undefined"]],
    [diagrams |-> <<"graph TD;A-->B", "throw object">>, prefix |-> "prefix",
     screenshot |-> FALSE, css |-> [kind |-> "undefined"],
     mermaidConfig |-> [theme |-> "dark"]],
    [diagrams |-> <<"invalid">>, prefix |-> Undefined, screenshot |-> FALSE,
     css |-> [kind |-> "string", urls |-> <<"font.css">>],
     mermaidConfig |-> [fontFamily |-> "\"Irish Grover\""]],
    [diagrams |-> <<"graph TD;C-->D">>, prefix |-> Undefined, screenshot |-> FALSE,
     css |-> [kind |-> "undefined"],
     mermaidConfig |-> [theme |-> "forest", fontFamily |-> "monospace"]] }

\* Requests made on the in-environment renderer: the diagrams of the tests, a
\* string thrown by the engine, with and without the options of the fixtures.
BrowserRequests ==
  { [diagrams |-> <<"graph TD;A-->B", "invalid">>, prefix |-> Undefined,
     screenshot |-> TRUE, css |-> [kind |-> "string", urls |-> <<"font.css">>]],
    [diagrams |-> <<"graph TD;C-->D">>, prefix |-> "custom", screenshot |-> FALSE,
     css |-> [kind |-> "undefined"], mermaidConfig |-> [theme |-> "dark"]],
    [diagrams |-> <<"throw string">>, prefix |-> Undefined, screenshot |-> FALSE,
     css |-> [kind |-> "undefined"]],
    [diagrams |-> <<"graph TD;A-->B">>, prefix |-> Undefined, screenshot |-> FALSE,
     css |-> [kind |-> "undefined"]] }

NoRequest == [diagrams |-> <<>>, prefix |-> Undefined, screenshot |-> FALSE,
              css |-> [kind |-> "undefined"]]

\* The svg elements getAriaValue is applied to: each of the two attributes is
\* missing or holds up to MaxAttr characters, letters of ids and spaces.
AriaAttributes == {"aria-labelledby", "aria-describedby"}

AttrChars == {"t", "d", " "}

AttrValues == SeqsUpTo(AttrChars, MaxAttr)

Attributes ==
  {[present |-> FALSE, value |-> <<>>]} \cup {[present |-> TRUE, value |-> v] : v \in AttrValues}

Svgs == [AriaAttributes -> Attributes]

NoSvg == [a \in AriaAttributes |-> [present |-> FALSE, value |-> <<>>]]

\* The elements with an id inside the svg, and their text content: a title, a
\* description, and an element without text.
ElementText == [t |-> "Title", d |-> "Desc", tt |-> ""]

\* ------------------------------------------------------- renderDiagrams
\* element.getElementById(id): the text content of the node, Undefined for null
GetElementById(id) == IF id \in DOMAIN ElementText THEN ElementText[id] ELSE Undefined

\* \s
IsSpace(ch) == ch = " "

\* value.split(/\s+/): a run of spaces ends a token and starts the next, so a
\* value that begins or ends with spaces gives an empty first or last token.
RECURSIVE SplitFrom(_, _, _)
SplitFrom(value, i, tokens) ==
  IF i > Len(value) THEN tokens
  ELSE IF IsSpace(value[i])
  THEN IF i > 1 /\ IsSpace(value[i - 1])
       THEN SplitFrom(value, i + 1, tokens)
       ELSE SplitFrom(value, i + 1, Append(tokens, ""))
  ELSE SplitFrom(value, i + 1, [tokens EXCEPT ![Len(tokens)] = @ \o value[i]])

Split(value) == SplitFrom(value, 1, <<"">>)

\* Putting each node's text in front of the text collected so far.
RECURSIVE ConcatTextReversed(_)
ConcatTextReversed(ids) ==
  IF ids = <<>> THEN ""
  ELSE LET node == GetElementById(Head(ids))
       IN  ConcatTextReversed(Tail(ids)) \o (IF node # Undefined THEN node ELSE "")

\* for (const id of ...) { const node = element.getElementById(id);
\* if (node) result += node.textContent }
RECURSIVE ConcatText(_)
ConcatText(ids) ==
  IF ids = <<>> THEN ""
  ELSE LET node == GetElementById(Head(ids))
       IN  (IF node # Undefined THEN node ELSE "") \o ConcatText(Tail(ids))

\* getAriaValue(element, attribute)
GetAriaValue(element, attribute) ==
  IF ~element[attribute].present THEN Undefined
  ELSE IF element[attribute].value = <<>> THEN Undefined
  ELSE ConcatText(Split(element[attribute].value))

\* if (description), if (title)
Truthy(text) == text # Undefined /\ text # ""

\* The title and description of the result built for a rendered diagram.
AriaFields(element) ==
  LET description == GetAriaValue(element, "aria-describedby")
      title == GetAriaValue(element, "aria-labelledby")
      none == [k \in {} |-> ""]
  IN  [status |-> "built"]
        @@ (IF Truthy(description) THEN [description |-> description] ELSE none)
        @@ (IF Truthy(title) THEN [title |-> title] ELSE none)

\* `${prefix}-${index}`, index zero-based
DiagramId(prefix, index) == prefix \o "-" \o ToString(index - 1)

\* What the catch block throws: for an engine Error the plain descriptor
\* { name, stack, message }, for any other value the value itself.
EngineError(diagram) ==
  LET error == ThrownBy(diagram)
  IN  IF error.type = "Error"
      THEN [name |-> error.name, stack |-> error.stack, message |-> error.message,
            proto |-> "Object"]
      ELSE error

\* One element of diagrams.map(async (diagram, index) => ...): the settled
\* outcome of the promise it returns.
RenderOne(prefix, index, diagram) ==
  IF EngineAccepts(diagram)
  THEN [status |-> "fulfilled",
        value |-> [id |-> DiagramId(prefix, index),
                   svg |-> <<DiagramId(prefix, index), diagram>>,
                   screenshot |-> Undefined]]
  ELSE [status |-> "rejected", reason |-> EngineError(diagram)]

Perms(n) == {f \in [1..n -> 1..n] : \A i, j \in 1..n : f[i] = f[j] => i = j}

\* Promise.all would reject with the first rejection instead of settling.
PromiseAll(settled) ==
  LET n == Len(settled)
      at(i) == settled[CHOOSE k \in 1..n : settled[k].index = i].outcome
      bad == {k \in 1..n : settled[k].outcome.status = "rejected"}
  IN  IF bad = {}
      THEN [status |-> "fulfilled", value |-> [i \in 1..n |-> at(i)]]
      ELSE [status |-> "rejected",
            reason |-> settled[CHOOSE k \in bad : \A m \in bad : k <= m].outcome.reason]

\* Collecting the outcomes in the order they settle instead of by position.
SettledInCompletionOrder(settled) ==
  [status |-> "fulfilled", value |-> [i \in 1..Len(settled) |-> settled[i].outcome]]

\* Promise.allSettled over the mapped promises: `settled` lists them in the
\* order they settle, the array it resolves with is ordered by position.
AllSettled(settled) ==
  LET n == Len(settled)
      at(i) == settled[CHOOSE k \in 1..n : settled[k].index = i].outcome
  IN  [status |-> "fulfilled", value |-> [i \in 1..n |-> at(i)]]

\* renderDiagrams for a request whose diagram promises settle in `order`
\* (order[k] is the position of the k-th promise to settle).
RenderDiagrams(req, prefix, order) ==
  AllSettled([k \in 1..Len(req.diagrams) |->
               [index |-> order[k],
                outcome |-> RenderOne(prefix, order[k], req.diagrams[order[k]])]])

\* ------------------------------------------------------------- the state
VARIABLES
  browserPromise,  \* NoSession, or the session whose launch promise is recorded
  count,           \* the closure's count of active calls
  sessions,        \* state of every session getBrowser has started, by launch order
  pc,              \* where each call is suspended
  request,         \* each call's arguments
  session,         \* the session whose promise each call awaited
  page,            \* each call's page: "none", "open", "closed"
  pending,         \* each call's injections that have not settled yet
  renderResults,   \* each call's renderResults
  shot,            \* position of the result each call is taking a screenshot of
  err,             \* the error each call is about to rethrow, or "none"
  outcome,         \* how each call's promise settled
  decs,            \* how often each call has executed `count -= 1`
  evalArgs,        \* the argument each call passed to page.evaluate
  trace,           \* the steps each call has taken, in order
  closeCalls,      \* how often close() was called on each session
  pages,           \* the pages of the context: how often each was opened and
                   \* closed, and the calls that operated on it
  pageOf,          \* each call's local variable `page`: NoPage or a page
  promises         \* each call's `promises` array: the injections it started

\* The older host renderer (src/index.ts), which awaits the browser's close()
\* before it clears browserPromise.
VARIABLES
  oPromise,        \* browserPromise: NoSession or a launched browser
  oCount,          \* count
  oBrowsers,       \* state of every browser launched, by launch order
  oCloseCalls,     \* how often close() was called on each browser
  oPc,             \* where each call is suspended
  oBrowser,        \* browserInstance of each call
  oErr,            \* the error each call is about to rethrow, or "none"
  oOutcome         \* how each call's promise settled: "pending", "fulfilled" or the error

\* The in-environment renderer (src/src/browser.ts) and its document.
VARIABLES
  bcount,          \* the module's count
  bpc,             \* where each call is: "idle", "rendering", "done"
  brequest,        \* each call's arguments
  bids,            \* the ids each call gave its diagrams
  bresults,        \* each call's settled diagram promises, by position
  containers,      \* how many containers of each call are in document.body
  boutcome         \* what each call returned

\* getAriaValue and the result built from it, applied to one parsed svg element.
VARIABLES
  ariaSvg,         \* the svg element
  ariaResult       \* the fields the result got

hostVars == <<browserPromise, count, sessions, pc, request, session, page, pending,
              renderResults, shot, err, outcome, decs, evalArgs,
              trace, closeCalls, pages, pageOf, promises>>

oldVars == <<oPromise, oCount, oBrowsers, oCloseCalls, oPc, oBrowser, oErr, oOutcome>>

browserVars == <<bcount, bpc, brequest, bids, bresults, containers, boutcome>>

ariaVars == <<ariaSvg, ariaResult>>

vars == <<hostVars, browserVars, ariaVars, oldVars>>

\* `let page: Page | undefined` before context.newPage() has fulfilled
NoPage == 0

NoArgs == [diagrams |-> <<>>]

HostInit ==
  /\ browserPromise = NoSession
  /\ count = 0
  /\ sessions = <<>>
  /\ pc = [c \in Calls |-> "idle"]
  /\ request = [c \in Calls |-> NoRequest]
  /\ session = [c \in Calls |-> NoSession]
  /\ page = [c \in Calls |-> "none"]
  /\ pending = [c \in Calls |-> {}]
  /\ renderResults = [c \in Calls |-> <<>>]
  /\ shot = [c \in Calls |-> 0]
  /\ err = [c \in Calls |-> "none"]
  /\ outcome = [c \in Calls |-> [status |-> "pending"]]
  /\ decs = [c \in Calls |-> 0]
  /\ evalArgs = [c \in Calls |-> NoArgs]
  /\ trace = [c \in Calls |-> <<>>]
  /\ closeCalls = <<>>
  /\ pages = [p \in Calls |-> [opens |-> 0, closes |-> 0, users |-> {}]]
  /\ pageOf = [c \in Calls |-> NoPage]
  /\ promises = [c \in Calls |-> <<>>]

\* ---------------------------------------------------------- getBrowser
\* A session is "launching" (browserType.launch pending), "contexting"
\* (browser.newContext pending), "ready" (the promise is fulfilled),
\* "launchFailed" / "contextFailed" (the promise is rejected),
\* "closingContext", "closingBrowser" (inside close()), "closed", or, when
\* context.close() rejected and close() ended there, "closeFailedContextOpen" /
\* "closeFailedContextClosed" by what the driver had done to the context.
PromiseFulfilled(s) == sessions[s] \in {"ready", "closingContext", "closingBrowser", "closed"}
PromiseRejected(s) == sessions[s] \in {"launchFailed", "contextFailed"}
BrowserOpen(s) ==
  sessions[s] \in {"contexting", "contextFailed", "ready", "closingContext", "closingBrowser",
                   "closeFailedContextOpen", "closeFailedContextClosed"}
ContextOpen(s) == sessions[s] \in {"ready", "closingContext", "closeFailedContextOpen"}
CloseStarted(s) ==
  sessions[s] \in {"closingContext", "closingBrowser", "closed",
                   "closeFailedContextOpen", "closeFailedContextClosed"}
SessionError(s) == IF sessions[s] = "launchFailed" THEN "launch" ELSE "newContext"

\* How a driver operation on session s or one of its pages settles: "none" on
\* success, the name of the step when the operation fails, and "closed" when
\* close() has already been called on the session (the driver then rejects
\* every operation on the context and its pages).
Fault(s, ok, step) ==
  IF sessions[s] # "ready" THEN "closed" ELSE IF ok THEN "none" ELSE step

\* await browserType.launch(launchOptions)
Launched(s) ==
  /\ s \in DOMAIN sessions /\ sessions[s] = "launching"
  /\ \E ok \in BOOLEAN :
       sessions' = [sessions EXCEPT ![s] = IF ok THEN "contexting" ELSE "launchFailed"]
  /\ UNCHANGED <<browserPromise, count, pc, request, session, page, pending,
                 renderResults, shot, err, outcome, decs>>
  /\ UNCHANGED <<evalArgs, trace, closeCalls, pages, pageOf, promises, browserVars, ariaVars, oldVars>>

\* await browser.newContext({ bypassCSP: true })
ContextCreated(s) ==
  /\ s \in DOMAIN sessions /\ sessions[s] = "contexting"
  /\ \E ok \in BOOLEAN :
       sessions' = [sessions EXCEPT ![s] = IF ok THEN "ready" ELSE "contextFailed"]
  /\ UNCHANGED <<browserPromise, count, pc, request, session, page, pending,
                 renderResults, shot, err, outcome, decs>>
  /\ UNCHANGED <<evalArgs, trace, closeCalls, pages, pageOf, promises, browserVars, ariaVars, oldVars>>

\* close(): await context.close()
ContextClosed(s) ==
  /\ s \in DOMAIN sessions /\ sessions[s] = "closingContext"
  /\ sessions' = [sessions EXCEPT ![s] = "closingBrowser"]
  /\ UNCHANGED <<browserPromise, count, pc, request, session, page, pending,
                 renderResults, shot, err, outcome, decs>>
  /\ UNCHANGED <<evalArgs, trace, closeCalls, pages, pageOf, promises, browserVars, ariaVars, oldVars>>

\* close(): await context.close() rejects, with the context closed or not:
\* close() rejects there and browser.close() is not called.
ContextCloseFailed(s) ==
  /\ s \in DOMAIN sessions /\ sessions[s] = "closingContext"
  /\ \E contextClosed \in BOOLEAN :
       sessions' = [sessions EXCEPT ![s] = IF contextClosed THEN "closeFailedContextClosed"
                                                            ELSE "closeFailedContextOpen"]
  /\ UNCHANGED <<browserPromise, count, pc, request, session, page, pending,
                 renderResults, shot, err, outcome, decs>>
  /\ UNCHANGED <<evalArgs, trace, closeCalls, pages, pageOf, promises, browserVars, ariaVars, oldVars>>

\* close(): await browser.close()
BrowserClosed(s) ==
  /\ s \in DOMAIN sessions /\ sessions[s] = "closingBrowser"
  /\ sessions' = [sessions EXCEPT ![s] = "closed"]
  /\ UNCHANGED <<browserPromise, count, pc, request, session, page, pending,
                 renderResults, shot, err, outcome, decs>>
  /\ UNCHANGED <<evalArgs, trace, closeCalls, pages, pageOf, promises, browserVars, ariaVars, oldVars>>

\* ------------------------------------------------- createMermaidRenderer
\* Launching on every call, whether or not a launch is already recorded.
AlwaysLaunch(bp) == TRUE

\* if (!browserPromise)
NeedsLaunch(bp) == bp = NoSession

\* Closing the session in every cleanup block, whatever the count.
CloseAlways(n) == TRUE

\* if (!count), after count -= 1
LastCall(n) == n = 0

\* A prefix that tells whether other calls are in progress on the renderer.
CountedPrefix(req) == IF count > 1 THEN "shared" ELSE "mermaid"

\* renderOptions?.prefix ?? 'mermaid'
PrefixOf(req) == IF req.prefix = Undefined THEN "mermaid" ELSE req.prefix

\* One stylesheet for a css option, its first url, however many it lists.
CssFirstOnly(req) ==
  <<"faStyle", "mermaidScript">> \o
  (IF req.css.kind = "undefined" \/ req.css.urls = <<>> THEN <<>> ELSE <<req.css.urls[1]>>)

\* The promises array: the icon-font stylesheet, the engine script, then one
\* addStyleTag for a css that is a string or a URL, or one per url of a css
\* that is an iterable, in iteration order.
Injections(req) ==
  <<"faStyle", "mermaidScript">> \o
  (IF req.css.kind \in {"string", "URL"} THEN <<req.css.urls[1]>>
   ELSE IF req.css.kind = "iterable" THEN req.css.urls
   ELSE <<>>)

\* Taking screenshots whether or not the caller asked for them.
ScreenshotAlways(req) == TRUE

\* Boolean(renderOptions?.screenshot), if (renderOptions?.screenshot)
WantsScreenshot(req) == req.screenshot

\* page.locator(`#${id}`).screenshot({ omitBackground: true }): the PNG of the
\* element with that id.
ScreenshotOf(id) == "png of #" \o id

\* The caller's mermaidConfig: nothing when the option is not given.
ConfigOf(req) ==
  IF "mermaidConfig" \in DOMAIN req THEN req.mermaidConfig ELSE [k \in {} |-> ""]

\* An object spread the other way round: the defaults win over the caller's keys.
DefaultsWin(defaults, config) ==
  [k \in DOMAIN defaults \cup DOMAIN config |->
     IF k \in DOMAIN defaults THEN defaults[k] ELSE config[k]]

\* { ...defaults, ...config }
MergeConfig(defaults, config) ==
  [k \in DOMAIN defaults \cup DOMAIN config |->
     IF k \in DOMAIN config THEN config[k] ELSE defaults[k]]

\* The object passed to page.evaluate (containerStyle is left out).
EvaluateArgs(req) ==
  [diagrams |-> req.diagrams,
   screenshot |-> WantsScreenshot(req),
   mermaidConfig |-> MergeConfig([fontFamily |-> "arial,sans-serif"], ConfigOf(req)),
   prefix |-> PrefixOf(req)]

\* `'name' in reason` throws a TypeError when reason is a primitive that is not
\* falsy: the marshalling loop then throws out of the render function.
MarshalThrows(results) ==
  \E i \in DOMAIN results :
    /\ results[i].status = "rejected"
    /\ "primitive" \in DOMAIN results[i].reason
    /\ results[i].reason.primitive # ""

\* Returning the results as page.evaluate delivered them.
NoMarshal(results) == results

\* The loop after the finally block: a rejected reason that has name, message
\* and stack gets Error.prototype.
Marshal(results) ==
  [i \in DOMAIN results |->
     IF results[i].status = "rejected"
        /\ {"name", "message", "stack"} \subseteq DOMAIN results[i].reason
     THEN [results[i] EXCEPT !.reason.proto = "Error"]
     ELSE results[i]]

\* A cleanup block that drops the pending exception and returns the results.
SwallowError(e, results) == [status |-> "fulfilled", value |-> Marshal(results)]

\* How the async function settles when the finally block is left: the pending
\* exception is rethrown, otherwise the marshalled results are returned.
Completion(e, results) ==
  IF e # "none" THEN [status |-> "rejected", reason |-> e]
  ELSE IF MarshalThrows(results) THEN [status |-> "rejected", reason |-> "TypeError"]
  ELSE [status |-> "fulfilled", value |-> Marshal(results)]

\* The screenshot loop starting from the last result.
LastShot(results, from) ==
  LET hits == {i \in from..Len(results) : results[i].status = "fulfilled"}
  IN  IF hits = {} THEN Len(results) + 1 ELSE CHOOSE i \in hits : \A j \in hits : i >= j

\* First position at or after `from` whose result is fulfilled, or
\* Len(results) + 1: where the screenshot loop awaits next.
NextShot(results, from) ==
  LET hits == {i \in from..Len(results) : results[i].status = "fulfilled"}
  IN  IF hits = {} THEN Len(results) + 1 ELSE CHOOSE i \in hits : \A j \in hits : i <= j

\* One page for all calls.
SharedPage(c) == 1

\* context.newPage() fulfils with a page no other call has: it is named after
\* the call that opened it.
FreshPage(c) == c

\* Keeping the reference to the session that is being closed.
KeptPromise(bp) == bp

\* browserPromise = undefined
ReleasedPromise(bp) == NoSession

\* A Promise.all that never fulfils.
NeverInjected(left) == FALSE

\* Going on as soon as one injection has fulfilled.
AnyInjected(left) == TRUE

\* await Promise.all(promises) fulfils when no injection is left pending.
AllInjected(left) == left = {}

\* Attempting the failed step again.
Retry(step) == step

\* An exception in the try block: control goes to the finally block, whose
\* first statement awaits page?.close().
AfterFailure(step) == "closePage"

\* The call's trace with the steps it takes now.
Logged(c, steps) == [trace EXCEPT ![c] = @ \o steps]

\* The pages after call c operated on its page.
Used(c) ==
  IF pageOf[c] = NoPage THEN pages
  ELSE [pages EXCEPT ![pageOf[c]].users = @ \cup {c}]

\* count += 1; if (!browserPromise) browserPromise = getBrowser(...), up to
\* `await browserPromise`.  Calls are numbered in the order they are made.
CallStart(c, req) ==
  /\ pc[c] = "idle"
  /\ c > 1 => pc[c - 1] # "idle"
  /\ count' = count + 1
  /\ IF NeedsLaunch(browserPromise)
     THEN /\ sessions' = Append(sessions, "launching")
          /\ browserPromise' = Len(sessions) + 1
     ELSE UNCHANGED <<sessions, browserPromise>>
  /\ session' = [session EXCEPT ![c] = browserPromise']
  /\ request' = [request EXCEPT ![c] = req]
  /\ pc' = [pc EXCEPT ![c] = "awaitBrowser"]
  /\ UNCHANGED <<page, pending, renderResults, shot, err, outcome, decs>>
  /\ closeCalls' = IF Len(sessions') > Len(sessions) THEN Append(closeCalls, 0) ELSE closeCalls
  /\ trace' = Logged(c, IF Len(sessions') > Len(sessions) THEN <<"launch">> ELSE <<>>)
  /\ UNCHANGED <<evalArgs, pages, pageOf, promises, browserVars, ariaVars, oldVars>>

StartPool(c) == \E req \in PoolRequests : CallStart(c, req)

StartBatch == \E req \in BatchRequests : CallStart(1, req)

StartCss == \E req \in CssRequests : CallStart(1, req)

StartLive(c) == \E req \in LiveRequests : CallStart(c, req)

StartIds(c) == \E req \in IdRequests : CallStart(c, req)

\* A call made when the renderer is at rest: no other call is in progress and
\* no close() is still running.
StartInputs(c) ==
  /\ \A d \in Calls : pc[d] \in {"idle", "settled"}
  /\ \A s \in DOMAIN sessions : sessions[s] \notin {"closingContext", "closingBrowser"}
  /\ \E req \in InputRequests : CallStart(c, req)

\* const context = await browserPromise: outside the try block, so a rejected
\* promise ends the call without running the finally block.
Acquire(c) ==
  /\ pc[c] = "awaitBrowser"
  /\ sessions[session[c]] \notin {"launching", "contexting"}
  /\ IF PromiseRejected(session[c])
     THEN /\ pc' = [pc EXCEPT ![c] = "settled"]
          /\ outcome' = [outcome EXCEPT ![c] =
                           [status |-> "rejected", reason |-> SessionError(session[c])]]
     ELSE /\ pc' = [pc EXCEPT ![c] = "newPage"]
          /\ UNCHANGED outcome
  /\ UNCHANGED <<browserPromise, count, sessions, request, session, page, pending,
                 renderResults, shot, err, decs>>
  /\ trace' = Logged(c, <<"acquire">>)
  /\ UNCHANGED <<evalArgs, closeCalls, pages, pageOf, promises, browserVars, ariaVars, oldVars>>

\* page = await context.newPage()
NewPage(c) ==
  /\ pc[c] = "newPage"
  /\ \E ok \in BOOLEAN :
       IF Fault(session[c], ok, "newPage") = "none"
       THEN /\ page' = [page EXCEPT ![c] = "open"]
            /\ pageOf' = [pageOf EXCEPT ![c] = FreshPage(c)]
            /\ pages' = [pages EXCEPT ![FreshPage(c)].opens = @ + 1]
            /\ pc' = [pc EXCEPT ![c] = "goto"]
            /\ UNCHANGED err
       ELSE /\ err' = [err EXCEPT ![c] = Fault(session[c], ok, "newPage")]
            /\ pc' = [pc EXCEPT ![c] = AfterFailure("newPage")]
            /\ UNCHANGED <<page, pageOf, pages>>
  /\ UNCHANGED <<browserPromise, count, sessions, request, session, pending,
                 renderResults, shot, outcome, decs>>
  /\ trace' = Logged(c, <<"newPage">>)
  /\ UNCHANGED <<evalArgs, closeCalls, promises, browserVars, ariaVars, oldVars>>

\* await page.goto(html), then every injection is started
Goto(c) ==
  /\ pc[c] = "goto"
  /\ \E ok \in BOOLEAN :
       IF Fault(session[c], ok, "goto") = "none"
       THEN /\ promises' = [promises EXCEPT ![c] = Injections(request[c])]
            /\ pending' = [pending EXCEPT ![c] = DOMAIN promises'[c]]
            /\ pc' = [pc EXCEPT ![c] = "inject"]
            /\ trace' = Logged(c, <<"goto", "inject">>)
            /\ UNCHANGED err
       ELSE /\ err' = [err EXCEPT ![c] = Fault(session[c], ok, "goto")]
            /\ pc' = [pc EXCEPT ![c] = AfterFailure("goto")]
            /\ trace' = Logged(c, <<"goto">>)
            /\ UNCHANGED <<pending, promises>>
  /\ UNCHANGED <<browserPromise, count, sessions, request, session, page,
                 renderResults, shot, outcome, decs>>
  /\ pages' = Used(c)
  /\ UNCHANGED <<evalArgs, closeCalls, pageOf, browserVars, ariaVars, oldVars>>

\* await Promise.all(promises): injection k settles; the first failure rejects
\* the Promise.all, the last success fulfils it.
InjectSettled(c, k) ==
  /\ pc[c] = "inject"
  /\ k \in pending[c]
  /\ pending' = [pending EXCEPT ![c] = @ \ {k}]
  /\ \E ok \in BOOLEAN :
       IF Fault(session[c], ok, "inject") = "none"
       THEN /\ pc' = [pc EXCEPT ![c] = IF AllInjected(pending'[c]) THEN "evaluate" ELSE "inject"]
            /\ UNCHANGED err
       ELSE /\ err' = [err EXCEPT ![c] = Fault(session[c], ok, "inject")]
            /\ pc' = [pc EXCEPT ![c] = AfterFailure("inject")]
  /\ UNCHANGED <<browserPromise, count, sessions, request, session, page,
                 renderResults, shot, outcome, decs>>
  /\ pages' = Used(c)
  /\ UNCHANGED <<evalArgs, trace, closeCalls, pageOf, promises, browserVars, ariaVars, oldVars>>

\* renderResults = await page.evaluate(renderDiagrams, {...}), up to the first
\* await of the screenshot loop or of the finally block.  page.evaluate rejects
\* when the driver fails and when the promise renderDiagrams returns rejects.
Evaluate(c) ==
  /\ pc[c] = "evaluate"
  /\ evalArgs' = [evalArgs EXCEPT ![c] = EvaluateArgs(request[c])]
  /\ \E ok \in BOOLEAN, order \in Perms(Len(request[c].diagrams)) :
       LET r == RenderDiagrams(request[c], PrefixOf(request[c]), order)
           first == IF r.status = "fulfilled" THEN NextShot(r.value, 1) ELSE 0
           fault == Fault(session[c], ok, "evaluate")
       IN  IF fault = "none" /\ r.status = "fulfilled"
           THEN /\ renderResults' = [renderResults EXCEPT ![c] = r.value]
                /\ IF WantsScreenshot(request[c]) /\ first <= Len(r.value)
                   THEN /\ shot' = [shot EXCEPT ![c] = first]
                        /\ pc' = [pc EXCEPT ![c] = "screenshot"]
                   ELSE /\ pc' = [pc EXCEPT ![c] = "closePage"]
                        /\ UNCHANGED shot
                /\ UNCHANGED err
           ELSE /\ err' = [err EXCEPT ![c] = IF fault = "none" THEN r.reason.name ELSE fault]
                /\ pc' = [pc EXCEPT ![c] = AfterFailure("evaluate")]
                /\ UNCHANGED <<renderResults, shot>>
  /\ UNCHANGED <<browserPromise, count, sessions, request, session, page, pending,
                 outcome, decs>>
  /\ trace' = Logged(c, <<"evaluate">>)
  /\ pages' = Used(c)
  /\ UNCHANGED <<closeCalls, pageOf, promises, browserVars, ariaVars, oldVars>>

\* result.value.screenshot = await page.locator(`#${result.value.id}`).screenshot(...)
Screenshot(c) ==
  /\ pc[c] = "screenshot"
  /\ \E ok \in BOOLEAN :
       IF Fault(session[c], ok, "screenshot") = "none"
       THEN LET i == shot[c]
                next == NextShot(renderResults[c], i + 1)
            IN  /\ renderResults' = [renderResults EXCEPT ![c][i].value.screenshot =
                                       ScreenshotOf(renderResults[c][i].value.id)]
                /\ shot' = [shot EXCEPT ![c] = next]
                /\ pc' = [pc EXCEPT ![c] =
                            IF next <= Len(renderResults[c]) THEN "screenshot" ELSE "closePage"]
                /\ UNCHANGED err
       ELSE /\ err' = [err EXCEPT ![c] = Fault(session[c], ok, "screenshot")]
            /\ pc' = [pc EXCEPT ![c] = AfterFailure("screenshot")]
            /\ UNCHANGED <<renderResults, shot>>
  /\ UNCHANGED <<browserPromise, count, sessions, request, session, page, pending,
                 outcome, decs>>
  /\ trace' = Logged(c, <<"screenshot " \o renderResults[c][shot[c]].value.id>>)
  /\ pages' = Used(c)
  /\ UNCHANGED <<evalArgs, closeCalls, pageOf, promises, browserVars, ariaVars, oldVars>>

\* The finally block from the moment `await page?.close()` resumes, and the
\* rest of the function: count -= 1; on the last call clear browserPromise and
\* start context.close() without awaiting it; then rethrow or marshal and return.
Finally(c) ==
  /\ pc[c] = "closePage"
  /\ page' = [page EXCEPT ![c] = IF @ = "open" THEN "closed" ELSE @]
  /\ count' = count - 1
  /\ decs' = [decs EXCEPT ![c] = @ + 1]
  /\ IF LastCall(count')
     THEN /\ browserPromise' = ReleasedPromise(browserPromise)
          /\ closeCalls' = [closeCalls EXCEPT ![session[c]] = @ + 1]
          /\ sessions' = [sessions EXCEPT ![session[c]] =
                            IF @ = "ready" THEN "closingContext" ELSE @]
     ELSE UNCHANGED <<browserPromise, sessions, closeCalls>>
  /\ outcome' = [outcome EXCEPT ![c] = Completion(err[c], renderResults[c])]
  /\ pc' = [pc EXCEPT ![c] = "settled"]
  /\ UNCHANGED <<request, session, pending, renderResults, shot, err>>
  /\ trace' = Logged(c, <<"closePage", "decrement">>
                         \o (IF LastCall(count') THEN <<"clear", "close">> ELSE <<>>)
                         \o <<"settle">>)
  /\ pages' = IF pageOf[c] = NoPage THEN pages
              ELSE [pages EXCEPT ![pageOf[c]].closes = @ + 1, ![pageOf[c]].users = @ \cup {c}]
  /\ UNCHANGED <<evalArgs, pageOf, promises, browserVars, ariaVars, oldVars>>

\* ------------------------------------------------- src/src/browser.ts
\* Ids made from the diagram's position, as the host's in-page function does.
IdsByIndex(req, base) ==
  [i \in 1..Len(req.diagrams) |-> DiagramId(PrefixOf(req), i)]

\* const id = `${options?.prefix ?? 'mermaid'}-${count}`; count += 1, run for
\* every diagram by diagrams.map before the first mermaid.render settles.
BrowserIds(req, base) ==
  [i \in 1..Len(req.diagrams) |-> PrefixOf(req) \o "-" \o ToString(base + i - 1)]

\* A render that reads the screenshot option.
RenderWithScreenshot(req, id, diagram) ==
  IF EngineAccepts(diagram)
  THEN [status |-> "fulfilled",
        value |-> [id |-> id, svg |-> <<id, diagram>>,
                   screenshot |-> IF req.screenshot THEN ScreenshotOf(id) ELSE Undefined]]
  ELSE [status |-> "rejected", reason |-> ThrownBy(diagram)]

\* A render whose promise is fulfilled whatever mermaid.render does.
RenderNeverRejects(req, id, diagram) ==
  [status |-> "fulfilled",
   value |-> [id |-> id, svg |-> <<id, diagram>>, screenshot |-> Undefined]]

\* One element of diagrams.map(async (diagram) => ...): the settled outcome of
\* the promise it returns.  There is no catch block: the reason is what
\* mermaid.render threw.
BrowserRenderOne(req, id, diagram) ==
  IF EngineAccepts(diagram)
  THEN [status |-> "fulfilled",
        value |-> [id |-> id, svg |-> <<id, diagram>>, screenshot |-> Undefined]]
  ELSE [status |-> "rejected", reason |-> ThrownBy(diagram)]

\* A return that leaves the container in the document.
RemoveSkipped(n) == n

\* container.remove()
ContainerRemoved(n) == n - 1

Unsettled == [status |-> "pending"]

\* renderer(diagrams, options) up to `await Promise.allSettled(...)`: the
\* container is appended and every diagram gets its id.  Calls are numbered in
\* the order they are made.
BrowserCall(c, req) ==
  /\ bpc[c] = "idle"
  /\ c > 1 => bpc[c - 1] # "idle"
  /\ brequest' = [brequest EXCEPT ![c] = req]
  /\ containers' = [containers EXCEPT ![c] = @ + 1]
  /\ bids' = [bids EXCEPT ![c] = BrowserIds(req, bcount)]
  /\ bcount' = bcount + Len(req.diagrams)
  /\ bresults' = [bresults EXCEPT ![c] = [i \in 1..Len(req.diagrams) |-> Unsettled]]
  /\ bpc' = [bpc EXCEPT ![c] = "rendering"]
  /\ UNCHANGED <<boutcome, hostVars, ariaVars, oldVars>>

\* The promise of the diagram at position i settles.
DiagramSettled(c, i) ==
  /\ bpc[c] = "rendering"
  /\ i \in DOMAIN bresults[c]
  /\ bresults[c][i] = Unsettled
  /\ bresults' = [bresults EXCEPT ![c][i] =
                    BrowserRenderOne(brequest[c], bids[c][i], brequest[c].diagrams[i])]
  /\ UNCHANGED <<bcount, bpc, brequest, bids, containers, boutcome, hostVars, ariaVars, oldVars>>

\* Promise.allSettled has resolved: container.remove(); return results
BrowserReturn(c) ==
  /\ bpc[c] = "rendering"
  /\ \A i \in DOMAIN bresults[c] : bresults[c][i] # Unsettled
  /\ containers' = [containers EXCEPT ![c] = ContainerRemoved(@)]
  /\ boutcome' = [boutcome EXCEPT ![c] = bresults[c]]
  /\ bpc' = [bpc EXCEPT ![c] = "done"]
  /\ UNCHANGED <<bcount, brequest, bids, bresults, hostVars, ariaVars, oldVars>>

\* The result of one rendered diagram is built from its svg element.
BuildResult ==
  /\ ariaResult.status = "none"
  /\ ariaResult' = AriaFields(ariaSvg)
  /\ UNCHANGED <<ariaSvg, hostVars, browserVars, oldVars>>

\* --------------------------------- src/index.ts: createMermaidRenderer
\* What the host variables and the other renderers keep while a call of the
\* older renderer takes a step.
OldFrame == UNCHANGED <<hostVars, browserVars, ariaVars>>

OldBrowserOpen(b) == oBrowsers[b] = "open"

\* count += 1; if (!browserPromise) browserPromise = browser.launch(launchOptions);
\* the call then awaits the promise it read.
OldCallStart(c) ==
  /\ oPc[c] = "idle"
  /\ oCount' = oCount + 1
  /\ IF oPromise = NoSession
     THEN /\ oBrowsers' = Append(oBrowsers, "launching")
          /\ oCloseCalls' = Append(oCloseCalls, 0)
          /\ oPromise' = Len(oBrowsers) + 1
     ELSE UNCHANGED <<oBrowsers, oCloseCalls, oPromise>>
  /\ oBrowser' = [oBrowser EXCEPT ![c] = oPromise']
  /\ oPc' = [oPc EXCEPT ![c] = "acquire"]
  /\ UNCHANGED <<oErr, oOutcome>>
  /\ OldFrame

\* browser.launch() settles.
OldLaunched(b) ==
  /\ b \in DOMAIN oBrowsers
  /\ oBrowsers[b] = "launching"
  /\ \E ok \in BOOLEAN :
       oBrowsers' = [oBrowsers EXCEPT ![b] = IF ok THEN "open" ELSE "launchFailed"]
  /\ UNCHANGED <<oPromise, oCount, oCloseCalls, oPc, oBrowser, oErr, oOutcome>>
  /\ OldFrame

\* const browserInstance = await browserPromise, before the try statement: a
\* rejected launch rejects the call at once, the cleanup block is not entered.
OldAcquire(c) ==
  /\ oPc[c] = "acquire"
  /\ oBrowsers[oBrowser[c]] # "launching"
  /\ IF oBrowsers[oBrowser[c]] = "launchFailed"
     THEN /\ oPc' = [oPc EXCEPT ![c] = "settled"]
          /\ oOutcome' = [oOutcome EXCEPT ![c] = "launch"]
     ELSE /\ oPc' = [oPc EXCEPT ![c] = "newPage"]
          /\ UNCHANGED oOutcome
  /\ UNCHANGED <<oPromise, oCount, oBrowsers, oCloseCalls, oBrowser, oErr>>
  /\ OldFrame

\* One awaited step of the try block: it fulfils only on an open browser and
\* the call goes on with one of `nexts`, or it rejects and the call enters its
\* cleanup block, which starts with `await page?.close()`.
OldAwait(c, step, nexts) ==
  /\ oPc[c] = step
  /\ \/ /\ OldBrowserOpen(oBrowser[c])
        /\ \E next \in nexts : oPc' = [oPc EXCEPT ![c] = next]
        /\ UNCHANGED oErr
     \/ /\ oPc' = [oPc EXCEPT ![c] = "closePage"]
        /\ oErr' = [oErr EXCEPT ![c] = step]
  /\ UNCHANGED <<oPromise, oCount, oBrowsers, oCloseCalls, oBrowser, oOutcome>>
  /\ OldFrame

\* page = await browserInstance.newPage({ bypassCSP: true })
OldNewPage(c) == OldAwait(c, "newPage", {"goto"})

\* await page.goto(html)
OldGoto(c) == OldAwait(c, "goto", {"inject"})

\* await Promise.all(promises)
OldInject(c) == OldAwait(c, "inject", {"evaluate"})

\* renderResults = await page.evaluate(renderDiagrams, ...); the screenshot
\* loop follows when the option is set and a result is fulfilled.
OldEvaluate(c) == OldAwait(c, "evaluate", {"screenshot", "closePage"})

\* One screenshot of the loop; another one follows or the loop is over.
OldScreenshot(c) == OldAwait(c, "screenshot", {"screenshot", "closePage"})

\* finally, after `await page?.close()`: count -= 1; if (!count) the call
\* calls browserInstance.close() and awaits it, browserPromise is still set.
OldFinally(c) ==
  /\ oPc[c] = "closePage"
  /\ oCount' = oCount - 1
  /\ IF oCount' = 0
     THEN /\ oCloseCalls' = [oCloseCalls EXCEPT ![oBrowser[c]] = @ + 1]
          /\ oBrowsers' = [oBrowsers EXCEPT ![oBrowser[c]] =
                             IF @ = "closed" THEN "closed" ELSE "closing"]
          /\ oPc' = [oPc EXCEPT ![c] = "closing"]
          /\ UNCHANGED oOutcome
     ELSE /\ oPc' = [oPc EXCEPT ![c] = "settled"]
          /\ oOutcome' = [oOutcome EXCEPT ![c] =
                            IF oErr[c] = "none" THEN "fulfilled" ELSE oErr[c]]
          /\ UNCHANGED <<oCloseCalls, oBrowsers>>
  /\ UNCHANGED <<oPromise, oBrowser, oErr>>
  /\ OldFrame

\* The browser has shut down.
OldBrowserClosed(b) ==
  /\ b \in DOMAIN oBrowsers
  /\ oBrowsers[b] = "closing"
  /\ oBrowsers' = [oBrowsers EXCEPT ![b] = "closed"]
  /\ UNCHANGED <<oPromise, oCount, oCloseCalls, oPc, oBrowser, oErr, oOutcome>>
  /\ OldFrame

\* `await browserInstance.close()` has fulfilled: browserPromise = undefined,
\* and the call settles.
OldAfterClose(c) ==
  /\ oPc[c] = "closing"
  /\ oBrowsers[oBrowser[c]] = "closed"
  /\ oPromise' = NoSession
  /\ oPc' = [oPc EXCEPT ![c] = "settled"]
  /\ oOutcome' = [oOutcome EXCEPT ![c] = IF oErr[c] = "none" THEN "fulfilled" ELSE oErr[c]]
  /\ UNCHANGED <<oCount, oBrowsers, oCloseCalls, oBrowser, oErr>>
  /\ OldFrame

\* ------------------------------------------------------ specifications
BrowserInit ==
  /\ bcount = 0
  /\ bpc = [c \in BCalls |-> "idle"]
  /\ brequest = [c \in BCalls |-> NoRequest]
  /\ bids = [c \in BCalls |-> <<>>]
  /\ bresults = [c \in BCalls |-> <<>>]
  /\ containers = [c \in BCalls |-> 0]
  /\ boutcome = [c \in BCalls |-> <<>>]

AriaIdle == ariaSvg = NoSvg /\ ariaResult = [status |-> "none"]

OldInit ==
  /\ oPromise = NoSession
  /\ oCount = 0
  /\ oBrowsers = <<>>
  /\ oCloseCalls = <<>>
  /\ oPc = [c \in Calls |-> "idle"]
  /\ oBrowser = [c \in Calls |-> NoSession]
  /\ oErr = [c \in Calls |-> "none"]
  /\ oOutcome = [c \in Calls |-> "pending"]

Init == HostInit /\ BrowserInit /\ AriaIdle /\ OldInit

Step ==
  \/ \E s \in 1..MaxCalls : Launched(s)
  \/ \E s \in 1..MaxCalls : ContextCreated(s)
  \/ \E s \in 1..MaxCalls : ContextClosed(s)
  \/ \E s \in 1..MaxCalls : BrowserClosed(s)
  \/ \E c \in Calls : Acquire(c)
  \/ \E c \in Calls : NewPage(c)
  \/ \E c \in Calls : Goto(c)
  \/ \E c \in Calls : \E k \in pending[c] : InjectSettled(c, k)
  \/ \E c \in Calls : Evaluate(c)
  \/ \E c \in Calls : Screenshot(c)
  \/ \E c \in Calls : Finally(c)

\* Concurrent calls on one renderer.
Next == (\E c \in Calls : StartPool(c)) \/ Step

Spec == Init /\ [][Next]_vars

\* Concurrent calls on one renderer whose driver may fail to close a context.
NextClose == Next \/ \E s \in 1..MaxCalls : ContextCloseFailed(s)

SpecClose == Init /\ [][NextClose]_vars

\* One call, every css option.
NextCss == StartCss \/ Step

SpecCss == Init /\ [][NextCss]_vars

\* Concurrent calls on one renderer, where every operation a call awaits
\* settles: a step that can be taken is taken in the end.  Calls need not be
\* made.
NextLive == (\E c \in Calls : StartLive(c)) \/ Step

SpecLive == Init /\ [][NextLive]_vars /\ WF_vars(Step)

\* Concurrent calls on one renderer, with equal and with different requests.
NextIds == (\E c \in Calls : StartIds(c)) \/ Step

SpecIds == Init /\ [][NextIds]_vars

\* One call, every batch and option.
NextBatch == StartBatch \/ Step

SpecBatch == Init /\ [][NextBatch]_vars

\* Calls one after the other, over what the engine throws and the mermaidConfig
\* option.
NextInputs == (\E c \in Calls : StartInputs(c)) \/ Step

SpecInputs == Init /\ [][NextInputs]_vars

\* Calls on the in-environment renderer of one document, overlapping at will.
NextBrowser ==
  \/ \E c \in BCalls : \E req \in BrowserRequests : BrowserCall(c, req)
  \/ \E c \in BCalls : \E i \in DOMAIN bresults[c] : DiagramSettled(c, i)
  \/ \E c \in BCalls : BrowserReturn(c)

SpecBrowser == Init /\ [][NextBrowser]_vars

\* getAriaValue on every svg element.
InitAria ==
  /\ HostInit /\ BrowserInit /\ OldInit
  /\ ariaSvg \in Svgs
  /\ ariaResult = [status |-> "none"]

NextAria == BuildResult

SpecAria == InitAria /\ [][NextAria]_vars

\* Concurrent calls on one renderer of the older variant (src/index.ts).
NextOld ==
  \/ \E c \in Calls : OldCallStart(c)
  \/ \E b \in 1..MaxCalls : OldLaunched(b)
  \/ \E c \in Calls : OldAcquire(c)
  \/ \E c \in Calls : OldNewPage(c)
  \/ \E c \in Calls : OldGoto(c)
  \/ \E c \in Calls : OldInject(c)
  \/ \E c \in Calls : OldEvaluate(c)
  \/ \E c \in Calls : OldScreenshot(c)
  \/ \E c \in Calls : OldFinally(c)
  \/ \E b \in 1..MaxCalls : OldBrowserClosed(b)
  \/ \E c \in Calls : OldAfterClose(c)

SpecOld == Init /\ [][NextOld]_vars

\* -------------------------------------------------------------- claims
Settled(c) == pc[c] = "settled"
InFlight(c) == pc[c] \notin {"idle", "settled"}
Resolved(c) == Settled(c) /\ outcome[c].status = "fulfilled"
Rejected(c) == Settled(c) /\ outcome[c].status = "rejected"

\* The failures the driver operations of a call can end with.
DriverFaults == {"launch", "newContext", "newPage", "goto", "inject", "evaluate", "screenshot"}

StatusesOf(results) == [i \in DOMAIN results |-> results[i].status]

ExpectedStatuses(diagrams) ==
  [i \in DOMAIN diagrams |-> IF EngineAccepts(diagrams[i]) THEN "fulfilled" ELSE "rejected"]

InvalidPositions(diagrams) == {i \in DOMAIN diagrams : ~EngineAccepts(diagrams[i])}

\* C1: a render call that resolves returns as many outcomes as it was given
\* diagrams, and the outcome at position i is the one of diagrams[i] (its id
\* carries i, its markup or its error is the one of that diagram's text), in
\* whatever order the diagrams' renders completed.
C1_PositionalAlignment ==
  \A c \in Calls :
    Resolved(c) =>
      LET out == outcome[c].value
          ds == request[c].diagrams
      IN  /\ Len(out) = Len(ds)
          /\ \A i \in 1..Len(ds) :
               IF EngineAccepts(ds[i])
               THEN /\ out[i].status = "fulfilled"
                    /\ out[i].value.id = DiagramId(PrefixOf(request[c]), i)
                    /\ out[i].value.svg = <<DiagramId(PrefixOf(request[c]), i), ds[i]>>
               ELSE /\ out[i].status = "rejected"
                    /\ out[i].reason.message = "No diagram type detected: " \o ds[i]

\* A resolved call on three different diagrams, the rejected one in the middle.
C1_Witness ==
  \E c \in Calls :
    /\ Resolved(c)
    /\ request[c].diagrams = <<"graph TD;A-->B", "invalid", "graph TD;C-->D">>
    /\ Len(outcome[c].value) = 3

\* C2: a call whose batch holds exactly one diagram the engine rejects among
\* N >= 1 it accepts does not fail because of it: if the call rejects, it
\* rejects with a driver failure, and otherwise it resolves with exactly one
\* Rejected outcome, at the invalid diagram's position, and N Fulfilled ones.
C2_Independence ==
  \A c \in Calls :
    LET ds == request[c].diagrams
        bad == InvalidPositions(ds)
    IN  (Settled(c) /\ Cardinality(bad) = 1 /\ Len(ds) >= 2) =>
          IF outcome[c].status = "fulfilled"
          THEN LET out == outcome[c].value
               IN  /\ {i \in DOMAIN out : out[i].status = "rejected"} = bad
                   /\ Cardinality({i \in DOMAIN out : out[i].status = "fulfilled"})
                        = Len(ds) - 1
          ELSE outcome[c].reason \in DriverFaults

\* A resolved call with one invalid diagram between two valid ones.
C2_Witness ==
  \E c \in Calls :
    /\ Resolved(c)
    /\ request[c].diagrams = <<"graph TD;C-->D", "invalid", "graph TD;A-->B">>
    /\ StatusesOf(outcome[c].value) = <<"fulfilled", "rejected", "fulfilled">>

\* C3: with calls running concurrently on one renderer, every call that
\* resolves has the statuses its own diagrams give, and a call rejects only
\* with a failure of one of its own driver operations or of the shared launch:
\* never with an engine error, and never because another call's cleanup closed
\* the session under it.
C3_ConcurrentCallsIndependent ==
  \A c \in Calls :
    Settled(c) =>
      IF outcome[c].status = "fulfilled"
      THEN StatusesOf(outcome[c].value) = ExpectedStatuses(request[c].diagrams)
      ELSE outcome[c].reason \in DriverFaults

\* Two calls that shared one session, a valid and an invalid diagram: the
\* first is fulfilled, the second rejected, both calls resolved.
C3_Witness ==
  /\ Resolved(1) /\ Resolved(2)
  /\ session[1] = session[2]
  /\ StatusesOf(outcome[1].value) = <<"fulfilled">>
  /\ StatusesOf(outcome[2].value) = <<"rejected">>

\* C4: calls that overlap share one launch: all calls in progress at the same
\* time await or hold the same session, the one browserPromise records.
C4_OverlappingCallsShareLaunch ==
  \A c, d \in Calls :
    (InFlight(c) /\ InFlight(d)) =>
      /\ session[c] = session[d]
      /\ session[c] = browserPromise

\* The second call has started while the launch of the first is in flight.
C4_Witness ==
  /\ pc[1] = "awaitBrowser" /\ pc[2] = "awaitBrowser"
  /\ sessions = <<"launching">>

\* A session whose close() has not been called: it is launching, open, or
\* left with an open browser by a failed newContext.
Live(s) == sessions[s] \in {"launching", "contexting", "ready", "contextFailed"}

\* C5 as stated: in every reachable state at most one launched and not yet
\* fully closed browser exists.
C5_AtMostOneEnvironment ==
  Cardinality({s \in DOMAIN sessions : BrowserOpen(s)}) <= 1

\* C5, amended: in every reachable state at most one environment instance on
\* which close() has not been called exists, and it is the one browserPromise
\* records; an instance that is still shutting down may coexist with it.
C5_AtMostOneLiveEnvironment ==
  /\ Cardinality({s \in DOMAIN sessions : Live(s)}) <= 1
  /\ \A s \in DOMAIN sessions : Live(s) => browserPromise = s

\* The browser of the released session is still open while the browser of the
\* next call's session is open as well.
C5_Witness ==
  \E s, t \in DOMAIN sessions :
    /\ s # t
    /\ CloseStarted(s) /\ BrowserOpen(s)
    /\ Live(t) /\ BrowserOpen(t)

\* C6: close() is not started on a session while a call that awaits or holds
\* it has not left its cleanup block: once it is started, every call made on
\* the session has settled, has closed its page if it opened one, and has
\* decremented the count.
C6_CloseAfterLastCall ==
  \A c \in Calls :
    (pc[c] # "idle" /\ CloseStarted(session[c])) =>
      /\ Settled(c)
      /\ page[c] # "open"
      /\ decs[c] = 1

\* Two calls overlapped on one session, one failed and one succeeded, and the
\* session's close() has been started.
C6_Witness ==
  /\ session[1] = session[2]
  /\ Rejected(1) /\ Resolved(2)
  /\ CloseStarted(session[1])

\* No call is in progress.
Idle == \A c \in Calls : ~InFlight(c)

\* C7 as stated: a render call made when all earlier calls have finished and
\* the renderer is idle launches a new environment instance and awaits it, not
\* the session of an earlier call.
C7_IdleCallLaunchesAnew ==
  [][\A c \in Calls :
       (Idle /\ pc[c] = "idle" /\ pc'[c] # "idle") =>
         /\ Len(sessions') = Len(sessions) + 1
         /\ session'[c] = Len(sessions')]_vars

\* Nothing is in progress: no call, no launch and no close().
Quiescent ==
  /\ Idle
  /\ \A s \in DOMAIN sessions :
       sessions[s] \notin {"launching", "contexting", "closingContext", "closingBrowser"}

\* C8 as stated: once every call has settled and every launch and close has
\* run to its end, no browser and no browsing context of the renderer is open.
C8_IdleMeansClosed ==
  Quiescent => \A s \in DOMAIN sessions : ~BrowserOpen(s) /\ ~ContextOpen(s)

\* C9 as stated: a render call that fails, at whatever step, has decremented
\* the count exactly once and has closed its page if it opened one.
C9_FailureStillCleansUp ==
  \A c \in Calls :
    Rejected(c) => (decs[c] = 1 /\ page[c] # "open")

\* C10: a call whose session promise rejected, or one of whose driver
\* operations failed, rejects with exactly that error: its promise is not
\* fulfilled with an array of outcomes.
C10_SessionErrorRejectsCall ==
  \A c \in Calls :
    Settled(c) =>
      /\ PromiseRejected(session[c]) =>
           outcome[c] = [status |-> "rejected", reason |-> SessionError(session[c])]
      /\ err[c] # "none" =>
           outcome[c] = [status |-> "rejected", reason |-> err[c]]

\* One call failed at an injection and was rejected with that failure; a later
\* call was rejected with the failure of its launch.
C10_Witness ==
  /\ Settled(1) /\ err[1] = "inject"
  /\ outcome[1] = [status |-> "rejected", reason |-> "inject"]
  /\ Settled(2) /\ sessions[session[2]] = "launchFailed"
  /\ outcome[2] = [status |-> "rejected", reason |-> "launch"]

\* Every driver operation of the call succeeded: its session promise was
\* fulfilled and nothing was thrown inside the try block.
DriverStepsSucceeded(c) ==
  /\ Settled(c)
  /\ ~PromiseRejected(session[c])
  /\ err[c] = "none"

\* C11 as stated: a call whose launch, page opening, navigation, injections
\* and in-page evaluation all succeeded resolves with one outcome per input
\* diagram, whatever the engine threw for the diagrams (an Error, a plain
\* object, a string).
C11_EngineFailureNeverRejectsCall ==
  \A c \in Calls :
    DriverStepsSucceeded(c) =>
      /\ outcome[c].status = "fulfilled"
      /\ Len(outcome[c].value) = Len(request[c].diagrams)

\* C12: in the array a call resolves with, every Rejected outcome whose reason
\* is the descriptor made from an engine Error has a reason that is an Error
\* (its prototype is Error.prototype) with the name, message and stack of the
\* error the engine threw inside the page.
C12_EngineErrorIsGenuineError ==
  \A c \in Calls :
    Resolved(c) =>
      \A i \in DOMAIN outcome[c].value :
        LET thrown == ThrownBy(request[c].diagrams[i])
            out == outcome[c].value[i]
        IN  (out.status = "rejected" /\ thrown.type = "Error") =>
              /\ out.reason.proto = "Error"
              /\ out.reason.name = thrown.name
              /\ out.reason.message = thrown.message
              /\ out.reason.stack = thrown.stack

\* A resolved call on 'invalid', as in the test 'handle errors': the reason is
\* an Error named UnknownDiagramError whose stack names mermaid.js.
C12_Witness ==
  \E c \in Calls :
    /\ Resolved(c)
    /\ request[c].diagrams = <<"invalid">>
    /\ outcome[c].value[1].status = "rejected"
    /\ outcome[c].value[1].reason.proto = "Error"
    /\ outcome[c].value[1].reason.name = "UnknownDiagramError"
    /\ outcome[c].value[1].reason.stack = "mermaid.js"

\* C13: in the array a call resolves with, a Fulfilled outcome has a
\* screenshot exactly when the call's screenshot option is true (it is the PNG
\* of the element with the outcome's id), and a Rejected outcome has no value
\* and so no screenshot.
C13_ScreenshotOptIn ==
  \A c \in Calls :
    Resolved(c) =>
      \A i \in DOMAIN outcome[c].value :
        LET out == outcome[c].value[i]
        IN  IF out.status = "fulfilled"
            THEN out.value.screenshot =
                   IF request[c].screenshot THEN ScreenshotOf(out.value.id) ELSE Undefined
            ELSE "value" \notin DOMAIN out /\ "screenshot" \notin DOMAIN out.reason

\* A resolved call that asked for screenshots of two valid diagrams around an
\* invalid one: both Fulfilled outcomes have their screenshot.
C13_Witness ==
  \E c \in Calls :
    /\ Resolved(c)
    /\ request[c].screenshot
    /\ request[c].diagrams = <<"graph TD;A-->B", "invalid", "graph TD;C-->D">>
    /\ outcome[c].value[1].value.screenshot = ScreenshotOf(DiagramId(PrefixOf(request[c]), 1))
    /\ outcome[c].value[3].value.screenshot = ScreenshotOf(DiagramId(PrefixOf(request[c]), 3))
    /\ outcome[c].value[2].status = "rejected"

\* The call has passed its arguments to page.evaluate.
Evaluated(c) == evalArgs[c] # NoArgs

\* C19: the mermaidConfig a call passes to the in-page function has the keys of
\* the caller's mermaidConfig and fontFamily; every caller-supplied key has the
\* caller's value, fontFamily is 'arial,sans-serif' when the caller supplies
\* none; it depends on the arguments of that call only.
C19_ConfigIsBaselineOverridden ==
  \A c \in Calls :
    Evaluated(c) =>
      LET given == ConfigOf(request[c])
          passed == evalArgs[c].mermaidConfig
      IN  /\ DOMAIN passed = DOMAIN given \cup {"fontFamily"}
          /\ \A k \in DOMAIN given : passed[k] = given[k]
          /\ "fontFamily" \notin DOMAIN given => passed.fontFamily = "arial,sans-serif"

\* A call that set its own font family, followed by a call without
\* mermaidConfig: the second call passes the baseline alone.
C19_Witness ==
  /\ Evaluated(1) /\ Evaluated(2)
  /\ ConfigOf(request[1]) = [fontFamily |-> "\"Irish Grover\""]
  /\ evalArgs[1].mermaidConfig = [fontFamily |-> "\"Irish Grover\""]
  /\ "mermaidConfig" \notin DOMAIN request[2]
  /\ evalArgs[2].mermaidConfig = [fontFamily |-> "arial,sans-serif"]

\* ---- the in-environment renderer
BStarted(c) == bpc[c] # "idle"
BDone(c) == bpc[c] = "done"

\* How many diagrams the calls made before call c were given.
RECURSIVE RenderedBefore(_)
RenderedBefore(c) ==
  IF c = 1 THEN 0 ELSE RenderedBefore(c - 1) + Len(brequest[c - 1].diagrams)

Identity(n) == [k \in 1..n |-> k]

\* What the host renderer returns for the same arguments when every driver
\* operation succeeds.
HostOutcome(req) ==
  Completion("none", RenderDiagrams(req, PrefixOf(req), Identity(Len(req.diagrams))).value)

\* C14 as stated: in every render call the id of the diagram at position i is
\* the call's prefix, '-', and i counted from zero.
C14_IdIsPrefixPosition ==
  \A c \in BCalls :
    BStarted(c) =>
      \A i \in DOMAIN bids[c] :
        bids[c][i] = PrefixOf(brequest[c]) \o "-" \o ToString(i - 1)

\* C14, amended: the host renderer gives the diagram at position i the id
\* prefix-i in every call; the in-environment renderer gives it prefix-(k+i),
\* k being the number of diagrams given to the calls made before on that
\* renderer, and returns that id in the diagram's Fulfilled outcome.
C14_IdIsPrefixPositionOrCounter ==
  \A c \in BCalls :
    BStarted(c) =>
      LET req == brequest[c]
          host == RenderDiagrams(req, PrefixOf(req), Identity(Len(req.diagrams))).value
      IN  \A i \in DOMAIN req.diagrams :
            /\ host[i].status = "fulfilled" =>
                 host[i].value.id = PrefixOf(req) \o "-" \o ToString(i - 1)
            /\ bids[c][i] = PrefixOf(req) \o "-" \o ToString(RenderedBefore(c) + i - 1)
            /\ (BDone(c) /\ boutcome[c][i].status = "fulfilled") =>
                 boutcome[c][i].value.id = bids[c][i]

\* The second call, made after a call with two diagrams, returned the id
\* mermaid-2 for its only diagram.
C14_Witness ==
  /\ BDone(2)
  /\ Len(brequest[1].diagrams) = 2
  /\ brequest[2].diagrams = <<"graph TD;A-->B">>
  /\ boutcome[2][1].status = "fulfilled"
  /\ boutcome[2][1].value.id = "mermaid-2"

\* C15: no two diagrams rendered into the document of the in-environment
\* renderer get the same id, whatever the calls' prefixes and interleaving,
\* and the counter equals the number of ids handed out; in the host renderer a
\* page belongs to one call, and the ids of one call are pairwise different.
C15_IdsNeverCollide ==
  /\ \A c, d \in BCalls :
       \A i \in DOMAIN bids[c], j \in DOMAIN bids[d] :
         bids[c][i] = bids[d][j] => (c = d /\ i = j)
  /\ \A c \in BCalls :
       BStarted(c) => bcount >= RenderedBefore(c) + Len(brequest[c].diagrams)
  /\ \A c \in BCalls :
       \A i, j \in DOMAIN brequest[c].diagrams :
         DiagramId(PrefixOf(brequest[c]), i) = DiagramId(PrefixOf(brequest[c]), j) => i = j

\* Two calls with the same prefix are rendering at the same time.
C15_Witness ==
  /\ bpc[1] = "rendering" /\ bpc[2] = "rendering"
  /\ PrefixOf(brequest[1]) = PrefixOf(brequest[2])
  /\ bresults[1][1] = Unsettled /\ bresults[2][1] = Unsettled
  /\ bids[1][1] = "mermaid-0" /\ bids[2][1] = "mermaid-1"

Plain(req) ==
  [diagrams |-> req.diagrams, prefix |-> req.prefix, screenshot |-> FALSE,
   css |-> [kind |-> "undefined"]]

\* C17: calls on the in-environment renderer launch nothing, open no page and
\* inject nothing; no outcome has a screenshot, also when the screenshot
\* option is true; and what a call returns is what it returns without the
\* options css, mermaidConfig and screenshot.
C17_BrowserVariantSkipsDriver ==
  /\ sessions = <<>> /\ browserPromise = NoSession /\ count = 0
  /\ \A c \in Calls : page[c] = "none" /\ pending[c] = {} /\ evalArgs[c] = NoArgs
  /\ \A c \in BCalls :
       BDone(c) =>
         \A i \in DOMAIN boutcome[c] :
           /\ boutcome[c][i].status = "fulfilled" =>
                boutcome[c][i].value.screenshot = Undefined
           /\ boutcome[c][i] =
                BrowserRenderOne(Plain(brequest[c]), bids[c][i], brequest[c].diagrams[i])

\* A call with screenshot: true and css, and a call with mermaidConfig, have
\* both returned a Fulfilled outcome.
C17_Witness ==
  \E c, d \in BCalls :
    /\ BDone(c) /\ BDone(d)
    /\ brequest[c].screenshot /\ brequest[c].css.kind = "string"
    /\ boutcome[c][1].status = "fulfilled"
    /\ "mermaidConfig" \in DOMAIN brequest[d]
    /\ boutcome[d][1].status = "fulfilled"

RECURSIVE Chars(_, _, _)
Chars(value, i, j) == IF i > j THEN "" ELSE value[i] \o Chars(value, i + 1, j)

\* Where the id reference that starts at position i ends.
RunEnd(value, i) ==
  CHOOSE j \in i..Len(value) :
    /\ \A k \in i..j : value[k] # " "
    /\ j = Len(value) \/ value[j + 1] = " "

\* The text of the elements referenced from position `from` on, in reference
\* order; a reference to no element adds nothing.
RECURSIVE ReferencedText(_, _)
ReferencedText(value, from) ==
  LET starts == {i \in from..Len(value) : value[i] # " "}
  IN  IF starts = {} THEN ""
      ELSE LET first == CHOOSE i \in starts : \A k \in starts : i <= k
               id == Chars(value, first, RunEnd(value, first))
           IN  (IF id \in DOMAIN ElementText THEN ElementText[id] ELSE "")
                 \o ReferencedText(value, RunEnd(value, first) + 1)

\* The field of the result is the referenced text of the attribute, and is
\* absent when the attribute is missing or that text is empty.
FieldIsReferencedText(field, attribute) ==
  LET a == ariaSvg[attribute]
      text == ReferencedText(a.value, 1)
  IN  IF a.present /\ text # ""
      THEN field \in DOMAIN ariaResult /\ ariaResult[field] = text
      ELSE field \notin DOMAIN ariaResult

\* C20: the title (from aria-labelledby) and the description (from
\* aria-describedby) of a result are the concatenation, in reference order, of
\* the text of the elements whose ids the attribute lists and that exist in
\* the markup; ids that resolve to nothing are skipped, and the field is absent
\* when the attribute is missing or the concatenation is empty.
C20_TitleAndDescription ==
  ariaResult.status = "built" =>
    /\ FieldIsReferencedText("title", "aria-labelledby")
    /\ FieldIsReferencedText("description", "aria-describedby")

\* A title made of two referenced texts in reference order, and no
\* description although aria-describedby references an element, one without
\* text.
C20_Witness ==
  /\ ariaResult.status = "built"
  /\ ariaSvg["aria-labelledby"].value = <<"d", " ", "t">>
  /\ ariaResult.title = "DescTitle"
  /\ ariaSvg["aria-describedby"].value = <<"t", "t">>
  /\ "description" \notin DOMAIN ariaResult

\* ---- the pool's state and the order of a call's steps
Started(c) == pc[c] # "idle"

\* How often the call has taken the step, and where in its trace.
Occurrences(c, step) == Cardinality({i \in DOMAIN trace[c] : trace[c][i] = step})

Has(c, step) == Occurrences(c, step) > 0

Pos(c, step) == CHOOSE i \in DOMAIN trace[c] : trace[c][i] = step

Before(c, first, second) ==
  (Has(c, first) /\ Has(c, second)) => Pos(c, first) < Pos(c, second)

\* C21 as stated: in every state between the atomic steps of the calls the
\* count is 0 exactly when browserPromise is undefined, and when no call is in
\* progress the count is 0 and browserPromise is undefined.
C21_CountZeroIffNoSession ==
  /\ count = 0 <=> browserPromise = NoSession
  /\ Idle => (count = 0 /\ browserPromise = NoSession)

\* C22 as stated: the count is never negative, it is the number of calls that
\* have started and have not executed the decrement of their cleanup block,
\* and it is 0 once every call that was made has settled.
C22_CountIsActiveCalls ==
  /\ count >= 0
  /\ count = Cardinality({c \in Calls : Started(c) /\ decs[c] = 0})
  /\ (\A c \in Calls : Started(c) => Settled(c)) => count = 0

\* C23: close() is called at most once on every session, under every
\* interleaving of the calls, failing calls and calls made during a teardown
\* included.
C23_CloseAtMostOnce ==
  \A s \in DOMAIN closeCalls : closeCalls[s] <= 1

\* The first session is still shutting down, and the session launched for the
\* call made meanwhile has been closed as well, each once; the first call had
\* failed.
C23_Witness ==
  /\ Len(sessions) = 2
  /\ sessions[1] \in {"closingContext", "closingBrowser"}
  /\ closeCalls = <<1, 1>>
  /\ Rejected(1) /\ err[1] # "none"

\* The last steps of a settled call: five when it closed the session, else three.
ClosedSession(c) ==
  Len(trace[c]) >= 5 /\ trace[c][Len(trace[c]) - 1] = "close"

CleanupSteps(c) ==
  LET n == Len(trace[c])
  IN  IF ClosedSession(c) THEN SubSeq(trace[c], n - 4, n) ELSE SubSeq(trace[c], n - 2, n)

CleanupInOrder(c) ==
  CleanupSteps(c) \in {<<"closePage", "decrement", "clear", "close", "settle">>,
                       <<"closePage", "decrement", "settle">>}

\* C24 as stated: in the cleanup block the page is closed, then the count is
\* decremented, then, when the count reached zero, the session is closed and
\* browserPromise cleared, and the call settles after that: when the call that
\* closes the session has settled, the context and the browser are closed.
C24_SettledAfterClose ==
  \A c \in Calls :
    (Settled(c) /\ decs[c] = 1) =>
      /\ CleanupInOrder(c)
      /\ ClosedSession(c) => sessions[session[c]] = "closed"

\* C24, amended: in the cleanup block the page is closed, then the count is
\* decremented, then, when the count reached zero (every call on the session
\* has decremented), browserPromise is cleared and close() is called on the
\* session; the call settles after these steps without waiting for close():
\* when it has settled, close() has been started, not necessarily finished.
C24_SettledAfterCloseStarted ==
  \A c \in Calls :
    (Settled(c) /\ decs[c] = 1) =>
      /\ page[c] # "open"
      /\ CleanupInOrder(c)
      /\ ClosedSession(c) =>
           /\ CloseStarted(session[c])
           /\ browserPromise # session[c]
           /\ \A d \in Calls : (Started(d) /\ session[d] = session[c]) => decs[d] = 1

\* The call that closed the session has settled while the context is still
\* being closed.
C24_Witness ==
  \E c \in Calls :
    /\ Resolved(c)
    /\ Has(c, "close")
    /\ sessions[session[c]] = "closingContext"

\* C25: a call in progress never awaits or uses a session on which close() has
\* been called; a call made after the count dropped to zero has a session of
\* its own, also while the earlier one is still shutting down.
C25_NoUseAfterClose ==
  \A c \in Calls :
    InFlight(c) =>
      /\ closeCalls[session[c]] = 0
      /\ ~CloseStarted(session[c])

\* The first session is shutting down while the second call has a page open
\* on the session launched for it.
C25_Witness ==
  /\ Len(sessions) = 2
  /\ sessions[1] \in {"closingContext", "closingBrowser"}
  /\ session[2] = 2
  /\ page[2] = "open"
  /\ pc[2] = "evaluate"

\* C27: a page is opened once, by one call, operated on by the call that
\* opened it only, and closed at most once; the pages of different calls are
\* different; a call in its try block past newPage has its page, not yet
\* closed, and a call that has left its cleanup block has closed the page it
\* opened exactly once.
C27_PagePerCall ==
  /\ \A q \in DOMAIN pages :
       /\ pages[q].opens <= 1
       /\ pages[q].closes <= pages[q].opens
       /\ \A c \in pages[q].users : pageOf[c] = q
       /\ Cardinality(pages[q].users) <= 1
  /\ \A c, d \in Calls : (c # d /\ pageOf[c] # NoPage) => pageOf[c] # pageOf[d]
  /\ \A c \in Calls :
       /\ pc[c] \in {"goto", "inject", "evaluate", "screenshot"} =>
            (pageOf[c] # NoPage /\ pages[pageOf[c]].closes = 0)
       /\ (Settled(c) /\ pageOf[c] # NoPage) => pages[pageOf[c]].closes = 1

\* Two calls that shared a session have each opened, used and closed a page of
\* their own.
C27_Witness ==
  /\ Resolved(1) /\ Resolved(2)
  /\ session[1] = session[2]
  /\ pageOf[1] # pageOf[2]
  /\ pages[pageOf[1]] = [opens |-> 1, closes |-> 1, users |-> {1}]
  /\ pages[pageOf[2]] = [opens |-> 1, closes |-> 1, users |-> {2}]

\* The steps of a call, in the order of the code.
StepOrder == <<"launch", "acquire", "newPage", "goto", "inject", "evaluate", "closePage">>

\* C28: a call takes its steps in this order: session acquired, page opened,
\* navigation, injections started, evaluation, page close; a step is taken
\* only after the one before it, and the evaluation only when no injection of
\* the call is pending.
C28_StepsInOrder ==
  \A c \in Calls :
    /\ \A i, j \in DOMAIN StepOrder : i < j => Before(c, StepOrder[i], StepOrder[j])
    /\ Has(c, "newPage") => Has(c, "acquire")
    /\ Has(c, "goto") => (Has(c, "newPage") /\ page[c] # "none")
    /\ Has(c, "inject") => Has(c, "goto")
    /\ Has(c, "evaluate") => (Has(c, "inject") /\ pending[c] = {})
    /\ pc[c] \in {"evaluate", "screenshot"} => pending[c] = {}
    /\ pc[c] = "inject" => (pending[c] # {} /\ ~Has(c, "evaluate"))

\* A call with four injections (two css urls) has evaluated its batch and
\* settled.
C28_Witness ==
  \E c \in Calls :
    /\ Resolved(c)
    /\ Len(Injections(request[c])) = 4
    /\ trace[c] = <<"launch", "acquire", "newPage", "goto", "inject", "evaluate",
                    "closePage", "decrement", "clear", "close", "settle">>

\* The screenshots a call has taken, in the order it took them.
RECURSIVE TakenShots(_, _)
TakenShots(c, from) ==
  IF from > Len(trace[c]) THEN <<>>
  ELSE (IF trace[c][from] \in {"screenshot " \o DiagramId(PrefixOf(request[c]), i) :
                                 i \in DOMAIN request[c].diagrams}
        THEN <<trace[c][from]>> ELSE <<>>) \o TakenShots(c, from + 1)

\* The screenshots of the fulfilled results from position `from` on, by position.
RECURSIVE ExpectedShots(_, _)
ExpectedShots(c, from) ==
  IF from > Len(renderResults[c]) THEN <<>>
  ELSE (IF renderResults[c][from].status = "fulfilled"
        THEN <<"screenshot " \o DiagramId(PrefixOf(request[c]), from)>> ELSE <<>>)
       \o ExpectedShots(c, from + 1)

IsPrefix(short, long) ==
  /\ Len(short) <= Len(long)
  /\ \A i \in DOMAIN short : short[i] = long[i]

\* C29: the screenshots of a call are taken one after the other in the order
\* of the fulfilled results' positions, after the evaluation of the batch has
\* returned and before the page is closed, and only when the screenshot option
\* is true; a call that resolves has taken all of them.
C29_ScreenshotsInOrder ==
  \A c \in Calls :
    LET taken == TakenShots(c, 1)
    IN  /\ IsPrefix(taken, ExpectedShots(c, 1))
        /\ ~request[c].screenshot => taken = <<>>
        /\ \A i \in DOMAIN taken :
             /\ Before(c, "evaluate", taken[i])
             /\ Before(c, taken[i], "closePage")
             /\ Has(c, "evaluate")
        /\ pc[c] = "screenshot" => (page[c] = "open" /\ ~Has(c, "closePage"))
        /\ (Resolved(c) /\ request[c].screenshot) => taken = ExpectedShots(c, 1)

\* A resolved call has taken the screenshots of its first and third diagram,
\* in this order, between the evaluation and the page close.
C29_Witness ==
  \E c \in Calls :
    /\ Resolved(c)
    /\ StatusesOf(renderResults[c]) = <<"fulfilled", "rejected", "fulfilled">>
    /\ request[c].prefix = Undefined
    /\ TakenShots(c, 1) = <<"screenshot mermaid-0", "screenshot mermaid-2">>

\* C30: a call takes none of its steps twice (launch, session, page opening,
\* navigation, start of the injections, evaluation, each screenshot, cleanup),
\* and the failure of a step ends the call: the steps after it are not taken
\* and the call rejects with that failure.
C30_NoRetry ==
  \A c \in Calls :
    /\ \A i, j \in DOMAIN trace[c] : trace[c][i] = trace[c][j] => i = j
    /\ err[c] # "none" =>
         /\ pc[c] \in {"closePage", "settled"}
         /\ Settled(c) => outcome[c] = [status |-> "rejected", reason |-> err[c]]
    /\ (Settled(c) /\ PromiseRejected(session[c])) =>
         /\ trace[c] \in {<<"launch", "acquire">>, <<"acquire">>}
         /\ outcome[c].status = "rejected"

\* A call whose navigation failed took no further step of the try block and
\* rejected with the failure.
C30_Witness ==
  \E c \in Calls :
    /\ Rejected(c)
    /\ err[c] = "goto"
    /\ trace[c] = <<"launch", "acquire", "newPage", "goto",
                    "closePage", "decrement", "clear", "close", "settle">>

\* ---- the older renderer
\* C26 as stated: in the variant that awaits browserInstance.close() before it
\* clears browserPromise, a call obtains a browser on which close() has not
\* been called, and close() is called at most once on a browser, also when a
\* call starts while another one is in its cleanup block.
C26_OldVariantSafe ==
  /\ \A c \in Calls : (oPc[c] = "newPage") => oCloseCalls[oBrowser[c]] = 0
  /\ \A b \in DOMAIN oCloseCalls : oCloseCalls[b] <= 1

\* ---- the renderer after a failure
\* C31 as stated: once a call has failed and no call is in progress, the pool
\* is as it was initially (count 0, browserPromise undefined), and a call made
\* then launches a session of its own and awaits that one, not the promise an
\* earlier call was rejected by.
C31_FailureLeavesRendererUsable ==
  [][(Idle /\ \E c \in Calls : Rejected(c)) =>
       /\ count = 0
       /\ browserPromise = NoSession
       /\ \A d \in Calls :
            (pc[d] = "idle" /\ pc'[d] # "idle") =>
              /\ session'[d] = Len(sessions) + 1
              /\ sessions'[session'[d]] = "launching"]_vars

\* ---- close()
\* close() was called on the session and has settled.
CloseSettled(s) ==
  closeCalls[s] > 0 /\ sessions[s] \notin {"closingContext", "closingBrowser"}

\* C32 as stated: close() closes the context, then the browser: the browser is
\* not closed while its context is open, once close() has settled both are
\* closed, and close() never ends with the context closed and the browser
\* still running.
C32_CloseClosesBoth ==
  \A s \in DOMAIN sessions :
    /\ (closeCalls[s] > 0 /\ ContextOpen(s)) => BrowserOpen(s)
    /\ CloseSettled(s) => (~ContextOpen(s) /\ ~BrowserOpen(s))
    /\ ~(CloseSettled(s) /\ ~ContextOpen(s) /\ BrowserOpen(s))

\* ---- the stylesheets of a call
\* How many stylesheets the css option asks for.
CssCount(css) ==
  IF css.kind = "undefined" THEN 0
  ELSE IF css.kind \in {"string", "URL"} THEN 1
  ELSE Len(css.urls)

\* C33: a call that has started its injections has started the icon-font
\* stylesheet, the engine script, and then the stylesheets of its css option:
\* none when css is absent, one when it is a string or a URL, one per element
\* in iteration order when it is an iterable, duplicates included; only these
\* are awaited.
C33_StylesheetsFollowCss ==
  \A c \in Calls :
    IF Has(c, "inject")
    THEN LET css == request[c].css
             p == promises[c]
         IN  /\ Len(p) = 2 + CssCount(css)
             /\ p[1] = "faStyle" /\ p[2] = "mermaidScript"
             /\ \A i \in 1..CssCount(css) : p[2 + i] = css.urls[i]
             /\ pending[c] \subseteq DOMAIN p
    ELSE promises[c] = <<>> /\ pending[c] = {}

\* A call given the same url twice in an iterable has injected it twice, after
\* the icon font and the engine, and resolved.
C33_Witness ==
  /\ Resolved(1)
  /\ request[1].css = [kind |-> "iterable", urls |-> <<"font.css", "font.css">>]
  /\ promises[1] = <<"faStyle", "mermaidScript", "font.css", "font.css">>

\* ---- termination
\* C34: every call that was made settles in the end, whatever calls run
\* concurrently with it and however their steps interleave, when every driver
\* operation settles.
C34_EveryCallSettles ==
  \A c \in Calls : Started(c) ~> Settled(c)

\* Two calls awaited the same launch; it failed and both have settled.
C34_Witness ==
  /\ Settled(1) /\ Settled(2)
  /\ session[1] = session[2]
  /\ PromiseRejected(session[1])
  /\ outcome[1] = outcome[2]

\* ---- determinism of the outcomes
\* The prefix a call asked for.
OwnPrefix(req) == IF req.prefix = Undefined THEN "mermaid" ELSE req.prefix

\* The ids of the fulfilled outcomes, by position.
IdsOf(results) ==
  [i \in DOMAIN results |->
     IF results[i].status = "fulfilled" THEN results[i].value.id ELSE "no id"]

\* C35: the statuses and the ids of the outcomes a call resolves with are a
\* function of the call's own diagrams and prefix: the status at position i is
\* the engine's verdict on diagrams[i], the id is the prefix and the position,
\* and two calls given the same request resolve with the same statuses and
\* ids, whether they overlapped, shared a session or followed each other.
C35_OutcomeDependsOnOwnCall ==
  \A c \in Calls :
    Resolved(c) =>
      /\ StatusesOf(outcome[c].value) = ExpectedStatuses(request[c].diagrams)
      /\ IdsOf(outcome[c].value) =
           [i \in DOMAIN request[c].diagrams |->
              IF EngineAccepts(request[c].diagrams[i])
              THEN DiagramId(OwnPrefix(request[c]), i) ELSE "no id"]
      /\ \A d \in Calls :
           (Resolved(d) /\ request[d] = request[c]) =>
             /\ StatusesOf(outcome[d].value) = StatusesOf(outcome[c].value)
             /\ IdsOf(outcome[d].value) = IdsOf(outcome[c].value)

\* Two calls with the same two diagrams overlapped on one session, a third
\* request apart: both resolved with a rejected and a fulfilled outcome and
\* the id of position 1.
C35_Witness ==
  /\ Resolved(1) /\ Resolved(2)
  /\ session[1] = session[2]
  /\ request[1] = request[2]
  /\ request[1].diagrams = <<"invalid", "graph TD;A-->B">>
  /\ IdsOf(outcome[1].value) = <<"no id", "mermaid-1">>
  /\ IdsOf(outcome[2].value) = <<"no id", "mermaid-1">>

====
